---- MODULE Spec2Model ----
(***************************************************************************)
(* A model of src/code/preprocess.py: main() runs vToA, split_audio, the   *)
(* cleanup of the whole-track .wav files, the selection of the encoder and *)
(* extract_image_feats, one after the other, over a directory of videos.   *)
(*                                                                         *)
(* A file name or path is the sequence of its pieces: "." and "/" are      *)
(* pieces of their own, every other piece holds neither.  The file system  *)
(* under output_dir is outWavs (the <id>.wav files) and outDirs (the       *)
(* <id>/ subdirectories with what they hold).  An uncaught exception ends  *)
(* main: pc = "crashed".                                                   *)
(***************************************************************************)
EXTENDS Integers, Sequences, FiniteSets, TLC

VARIABLES
    videos,      \* the input directory: file name -> [audio, frames]
    opt,         \* the parsed options
    pc,          \* where main is
    queue,       \* what the running for-loop still has to visit
    outExists,   \* output_dir exists
    outWavs,     \* output_dir/<id>.wav: id -> the video it was extracted from
    outDirs,     \* output_dir/<id>/: id -> the directory's content
    H, W,        \* the module globals of line 21
    main_H,      \* main's local H (0: not assigned)
    main_W,      \* main's local W (0: not assigned)
    n_images,    \* len(image_list) at line 63 for the last video (-1: none yet)
    samples,     \* the sampled indices of line 64-65 for the last video
    images,      \* shape of the buffer of line 67 for the last video
    batch,       \* shape of the tensor handed to the encoder at line 73
    mfcc_in,     \* the buffer last handed to mfcc (line 146) in split_audio
    failed       \* the video whose processing raised, or NoVideo

vars == <<videos, opt, pc, queue, outExists, outWavs, outDirs, H, W, main_H,
          main_W, n_images, samples, images, batch, mfcc_in, failed>>

----------------------------------------------------------------------------
(* Bounds of the model. *)

MaxVideos == 2
MaxFrames == 2
MaxSegs == 2
MaxSteps == 2
MaxL == 12
MaxN == 12

----------------------------------------------------------------------------
(* Program constants. *)

C == 3
DefaultRes == 224
InceptionRes == 299
PadLen == 16000

Dot == "."
Slash == "/"
NoFile == <<>>
NoVideo == <<>>

VideoDir == <<Dot, Dot, Slash, "train-video">>
OutputDir == <<Dot, Dot, Slash, "preprocessed">>

FileNames ==
    { <<"a", Dot, "mp4">>,
      <<"b", Dot, "mp4">>,
      <<"a", Dot, "b", Dot, "mp4">>,
      <<"b", Dot, "avi">> }

Frequencies == {8000, 16000, 22050}
Models == {"resnet152", "inception_v3", "vgg16", "alexnet"}
Supported == {"resnet152", "inception_v3", "vgg16"}

----------------------------------------------------------------------------
(* Strings. *)

RECURSIVE LastPart(_, _)
\* s.split(sep)[-1]
LastPart(s, sep) ==
    IF s = <<>> THEN <<>>
    ELSE IF s[Len(s)] = sep THEN <<>>
    ELSE Append(LastPart(SubSeq(s, 1, Len(s) - 1), sep), s[Len(s)])

RECURSIVE FirstPart(_, _)
\* s.split(sep)[0]
FirstPart(s, sep) ==
    IF s = <<>> THEN <<>>
    ELSE IF Head(s) = sep THEN <<>>
    ELSE <<Head(s)>> \o FirstPart(Tail(s), sep)

\* video.split("/")[-1].split(".")[0]
VideoId(path) == FirstPart(LastPart(path, Slash), Dot)

\* file.endswith(ext)
EndsWith(name, ext) ==
    /\ Len(name) >= Len(ext)
    /\ SubSeq(name, Len(name) - Len(ext) + 1, Len(name)) = ext

\* glob '*.mp4': a leading "." is not matched by "*"
GlobMp4(name) ==
    /\ EndsWith(name, <<Dot, "mp4">>)
    /\ Head(name) # Dot

\* The file name minus its extension (the text before the last ".").
RECURSIVE Stem(_)
Stem(name) ==
    IF name = <<>> THEN <<>>
    ELSE IF name[Len(name)] = Dot THEN SubSeq(name, 1, Len(name) - 1)
    ELSE Stem(SubSeq(name, 1, Len(name) - 1))

\* Every order a directory listing (os.listdir, glob.glob) may come in.
Listings(S) ==
    { f \in [1..Cardinality(S) -> S] :
        \A i, j \in 1..Cardinality(S) : i # j => f[i] # f[j] }

----------------------------------------------------------------------------
(* Frame sampling. *)

\* np.round of num/den (den > 0): to the nearest integer, a half to the even one
Round(num, den) ==
    LET q == num \div den
        r == num % den
    IN  IF 2 * r < den THEN q
        ELSE IF 2 * r > den THEN q + 1
        ELSE IF q % 2 = 0 THEN q ELSE q + 1

\* np.linspace(0, stop, n)[i - 1] as the fraction <<numerator, denominator>>
Linspace(stop, n, i) ==
    IF n = 1 THEN <<0, 1>> ELSE <<(i - 1) * stop, n - 1>>

\* Samples with the last position at len(image_list), one past the last frame
SamplesOffByOne(L, n) ==
    [i \in 1..n |-> Round(Linspace(L, n, i)[1], Linspace(L, n, i)[2])]

\* np.round(np.linspace(0, len(image_list) - 1, n_frame_steps))
Samples(L, n) ==
    [i \in 1..n |-> Round(Linspace(L - 1, n, i)[1], Linspace(L - 1, n, i)[2])]

\* sorted(glob('*.jpg')): the frame numbers in increasing order
RECURSIVE Sorted(_)
Sorted(S) ==
    IF S = {} THEN <<>>
    ELSE LET m == CHOOSE x \in S : \A y \in S : x <= y
         IN  <<m>> \o Sorted(S \ {m})

\* list[k] raises IndexError unless -len(list) <= k < len(list)
InRange(list, k) == -Len(list) <= k /\ k < Len(list)

\* list[k]: a negative k counts from the end
At(list, k) == IF k < 0 THEN list[Len(list) + k + 1] ELSE list[k + 1]

\* tensor.squeeze(): every axis of size 1 is dropped
RECURSIVE Squeeze(_)
Squeeze(shape) ==
    IF shape = <<>> THEN <<>>
    ELSE IF Head(shape) = 1 THEN Squeeze(Tail(shape))
    ELSE <<Head(shape)>> \o Squeeze(Tail(shape))

----------------------------------------------------------------------------
(* Audio segments. *)

\* lines 141-144: what is handed to mfcc for a segment of audio_length samples
Normalize(audio_length) ==
    IF audio_length <= PadLen
    THEN [kept |-> audio_length, zeros |-> PadLen - audio_length]
    ELSE [kept |-> PadLen, zeros |-> 0]

\* The sample counts a segment file of a track at rate sr may hold.
SegLens(sr) == {sr - 1, sr, sr + 1}

----------------------------------------------------------------------------
(* The input resolution of each encoder, lines 190-201. *)

InputSize(model) == IF model = "inception_v3" THEN InceptionRes ELSE DefaultRes

EmptyDir == [audio |-> NoFile, video |-> NoFile, jpgs |-> {}, wavs |-> {}]

WavName(id) == id \o <<Dot, "wav">>

EmptyMap == [x \in {} |-> NoFile]

\* f with key k bound to v
Put(f, k, v) == [x \in DOMAIN f \cup {k} |-> IF x = k THEN v ELSE f[x]]

----------------------------------------------------------------------------
(* The state main starts in. *)

Directories ==
    UNION { [D -> [audio : 0..MaxSegs, frames : 0..MaxFrames]] :
            D \in { S \in SUBSET FileNames : Cardinality(S) <= MaxVideos } }

Fresh ==
    /\ H = DefaultRes
    /\ W = DefaultRes
    /\ main_H = 0
    /\ main_W = 0
    /\ n_images = -1
    /\ samples = <<>>
    /\ images = <<>>
    /\ batch = <<>>
    /\ mfcc_in = <<>>
    /\ failed = NoVideo

Init ==
    /\ videos \in Directories
    /\ opt \in [n_frame_steps : 1..MaxSteps,
                output_frequency : Frequencies,
                model : Models]
    /\ pc = "start"
    /\ queue = <<>>
    /\ outExists \in BOOLEAN
    /\ outWavs = EmptyMap
    /\ outDirs = EmptyMap
    /\ Fresh

----------------------------------------------------------------------------
(* main, lines 178-179, and vToA up to its loop, lines 98-102. *)

Start ==
    /\ pc = "start"
    /\ pc' = "vToA"
    /\ outExists' = TRUE
    /\ outWavs' = EmptyMap
    /\ outDirs' = EmptyMap
    /\ queue' \in Listings(DOMAIN videos)
    /\ UNCHANGED <<videos, opt, H, W, main_H, main_W, n_images, samples,
                   images, batch, mfcc_in, failed>>

(* vToA, lines 102-108: one video of the listing.  ffmpeg writes <id>.wav  *)
(* when the video has an audio stream and writes nothing when it has none; *)
(* its exit status is not looked at.  It is run without -y: when <id>.wav  *)
(* is already there it either keeps the file or overwrites it.             *)

VToAVideo ==
    /\ pc = "vToA"
    /\ queue # <<>>
    /\ LET video == VideoDir \o <<Slash>> \o Head(queue)
           video_id == VideoId(video)
       IN  IF videos[Head(queue)].audio = 0
           THEN outWavs' = outWavs
           ELSE IF video_id \in DOMAIN outWavs
           THEN \E overwrite \in BOOLEAN :
                    outWavs' = IF overwrite
                               THEN Put(outWavs, video_id, Head(queue))
                               ELSE outWavs
           ELSE outWavs' = Put(outWavs, video_id, Head(queue))
    /\ queue' = Tail(queue)
    /\ UNCHANGED <<videos, opt, pc, outExists, outDirs, H, W, main_H, main_W,
                   n_images, samples, images, batch, mfcc_in, failed>>

(* vToA returns; split_audio lists output_dir, line 125. *)

SplitAudioBegin ==
    /\ pc = "vToA"
    /\ queue = <<>>
    /\ pc' = "split_audio"
    /\ queue' \in Listings({WavName(id) : id \in DOMAIN outWavs})
    /\ UNCHANGED <<videos, opt, outExists, outWavs, outDirs, H, W, main_H,
                   main_W, n_images, samples, images, batch, mfcc_in, failed>>

(* split_audio, lines 126-154: one track.  ffmpeg cuts it into the segment *)
(* files 00.wav, 01.wav, ...; they are read in the order os.listdir gives. *)
(* wavfile.read and mfcc are calls into libraries and may raise.           *)

\* lines 136-148 over the segments in the order `listing`: the buffers handed
\* to mfcc, each with the segment's number, length and sample rate
MfccInputs(listing, lens, sr) ==
    [i \in 1..Len(listing) |->
        [segment |-> listing[i],
         audio_length |-> lens[listing[i]],
         sample_rate |-> sr,
         kept |-> Normalize(lens[listing[i]]).kept,
         zeros |-> Normalize(lens[listing[i]]).zeros]]

SplitAudioTrack ==
    /\ pc = "split_audio"
    /\ queue # <<>>
    /\ LET audio == OutputDir \o <<Slash>> \o Head(queue)
           video_id == VideoId(audio)
           source == outWavs[video_id]
           segs == 0..(videos[source].audio - 1)
           sr == opt.output_frequency
       IN  \E listing \in Listings(segs), lens \in [segs -> SegLens(sr)],
              raised \in 0..Cardinality(segs) :
               IF raised > 0
               THEN /\ mfcc_in' = MfccInputs(listing, lens, sr)[raised]
                    /\ outDirs' = Put(outDirs, video_id,
                                      [EmptyDir EXCEPT !.wavs = segs])
                    /\ pc' = "crashed"
                    /\ failed' = source
                    /\ queue' = queue
               ELSE /\ mfcc_in' = MfccInputs(listing, lens, sr)[Len(listing)]
                    /\ outDirs' = Put(outDirs, video_id,
                                      [EmptyDir EXCEPT !.audio =
                                          [source |-> source,
                                           segments |-> listing]])
                    /\ pc' = pc
                    /\ failed' = failed
                    /\ queue' = Tail(queue)
    /\ UNCHANGED <<videos, opt, outExists, outWavs, H, W, main_H, main_W,
                   n_images, samples, images, batch>>

(* main, lines 182-187: the whole-track .wav files are removed. *)

CleanupWavs ==
    /\ pc = "split_audio"
    /\ queue = <<>>
    /\ pc' = "select_model"
    /\ outWavs' = EmptyMap
    /\ mfcc_in' = <<>>
    /\ UNCHANGED <<videos, opt, queue, outExists, outDirs, H, W, main_H,
                   main_W, n_images, samples, images, batch, failed>>

(* main, lines 189-208: C, H, W are assigned in main without a global      *)
(* statement, so they are locals of main; with a model that is not         *)
(* supported, model is unbound at line 205.  Then extract_image_feats      *)
(* lists the videos, line 55.                                              *)

SelectModel ==
    /\ pc = "select_model"
    /\ IF opt.model \in Supported
       THEN /\ main_H' = InputSize(opt.model)
            /\ main_W' = InputSize(opt.model)
            /\ pc' = "extract"
            /\ queue' \in Listings({v \in DOMAIN videos : GlobMp4(v)})
       ELSE /\ pc' = "crashed"
            /\ UNCHANGED <<main_H, main_W, queue>>
    /\ UNCHANGED <<videos, opt, outExists, outWavs, outDirs, H, W, n_images,
                   samples, images, batch, mfcc_in, failed>>

(* extract_image_feats, lines 56-79: one video.  ffmpeg writes the frames  *)
(* 000001.jpg, ... into the video's directory.  Line 66 raises IndexError  *)
(* on an index out of range, as every index is on an empty image_list.     *)
(* Line 70 raises when the loaded image has not the buffer's height and    *)
(* width.  The encoder is a call into a library and may raise; it returns  *)
(* one row per entry of its input's first axis.                            *)

ExtractVideo ==
    /\ pc = "extract"
    /\ queue # <<>>
    /\ LET video == VideoDir \o <<Slash>> \o Head(queue)
           video_id == VideoId(video)
           dir == IF video_id \in DOMAIN outDirs
                  THEN outDirs[video_id] ELSE EmptyDir
           jpgs == dir.jpgs \cup 1..videos[Head(queue)].frames
           image_list == Sorted(jpgs)
           sampled == Samples(Len(image_list), opt.n_frame_steps)
           picked == [i \in 1..Len(sampled) |-> At(image_list, sampled[i])]
           shape == <<Len(picked), C, H, W>>
           left == [dir EXCEPT !.jpgs = jpgs]
       IN  /\ n_images' = Len(image_list)
           /\ samples' = sampled
           /\ IF \E i \in 1..Len(sampled) : ~InRange(image_list, sampled[i])
              THEN /\ outDirs' = Put(outDirs, video_id, left)
                   /\ pc' = "crashed"
                   /\ failed' = Head(queue)
                   /\ UNCHANGED <<images, batch, queue>>
              ELSE IF InputSize(opt.model) # H \/ InputSize(opt.model) # W
              THEN /\ outDirs' = Put(outDirs, video_id, left)
                   /\ images' = shape
                   /\ pc' = "crashed"
                   /\ failed' = Head(queue)
                   /\ UNCHANGED <<batch, queue>>
              ELSE /\ images' = shape
                   /\ batch' = Squeeze(shape)
                   /\ \E raised \in BOOLEAN :
                        IF raised
                        THEN /\ outDirs' = Put(outDirs, video_id, left)
                             /\ pc' = "crashed"
                             /\ failed' = Head(queue)
                             /\ queue' = queue
                        ELSE /\ outDirs' = Put(outDirs, video_id,
                                    [dir EXCEPT !.jpgs = {},
                                                !.video =
                                         [source |-> Head(queue),
                                          rows |-> Head(Squeeze(shape)),
                                          frames |-> picked]])
                             /\ pc' = pc
                             /\ failed' = failed
                             /\ queue' = Tail(queue)
    /\ UNCHANGED <<videos, opt, outExists, outWavs, H, W, main_H, main_W,
                   mfcc_in>>

(* extract_image_feats and main return. *)

Finish ==
    /\ pc = "extract"
    /\ queue = <<>>
    /\ pc' = "done"
    /\ UNCHANGED <<videos, opt, queue, outExists, outWavs, outDirs, H, W,
                   main_H, main_W, n_images, samples, images, batch, mfcc_in,
                   failed>>

Next ==
    \/ Start
    \/ VToAVideo
    \/ SplitAudioBegin
    \/ SplitAudioTrack
    \/ CleanupWavs
    \/ SelectModel
    \/ ExtractVideo
    \/ Finish

Spec == Init /\ [][Next]_vars

----------------------------------------------------------------------------
(* The frame sampler on its own: extract_image_feats over a directory of   *)
(* one silent video of 0..MaxL frames, with 1..MaxN frame steps, from the  *)
(* state in which main calls it.                                           *)

SamplerInit ==
    /\ \E L \in 0..MaxL :
         videos = [v \in {<<"a", Dot, "mp4">>} |-> [audio |-> 0, frames |-> L]]
    /\ opt \in [n_frame_steps : 1..MaxN,
                output_frequency : Frequencies,
                model : Supported]
    /\ pc = "extract"
    /\ queue = << <<"a", Dot, "mp4">> >>
    /\ outExists = TRUE
    /\ outWavs = EmptyMap
    /\ outDirs = EmptyMap
    /\ H = DefaultRes
    /\ W = DefaultRes
    /\ main_H = InputSize(opt.model)
    /\ main_W = InputSize(opt.model)
    /\ n_images = -1
    /\ samples = <<>>
    /\ images = <<>>
    /\ batch = <<>>
    /\ mfcc_in = <<>>
    /\ failed = NoVideo

SamplerNext ==
    \/ ExtractVideo
    \/ Finish

SamplerSpec == SamplerInit /\ [][SamplerNext]_vars

----------------------------------------------------------------------------
(* Properties. *)

Terminated == pc \in {"done", "crashed"}

DirOf(name) == VideoId(VideoDir \o <<Slash>> \o name)

HasVideoNpy(name) ==
    /\ DirOf(name) \in DOMAIN outDirs
    /\ outDirs[DirOf(name)].video # NoFile

HasAudioNpy(name) ==
    /\ DirOf(name) \in DOMAIN outDirs
    /\ outDirs[DirOf(name)].audio # NoFile

\* C1: for a video of L >= 1 frames and n_frame_steps >= 1, the sampled index
\* list has exactly n_frame_steps entries, each in 0..L-1, and never decreases.
C1_SampledIndices ==
    n_images >= 1 =>
        /\ Len(samples) = opt.n_frame_steps
        /\ \A i \in 1..Len(samples) : samples[i] \in 0..(n_images - 1)
        /\ \A i \in 1..(Len(samples) - 1) : samples[i] <= samples[i + 1]

\* C1's case: a video shorter than n_frame_steps was sampled, with a frame
\* taken twice and the last frame reached.
C1_Witness ==
    /\ n_images > 1
    /\ n_images < opt.n_frame_steps
    /\ Len(samples) = opt.n_frame_steps
    /\ \E i \in 1..(Len(samples) - 1) : samples[i] = samples[i + 1]
    /\ samples[Len(samples)] = n_images - 1

\* C2: after a complete run over a directory of videos that each decode to
\* at least one frame, the output directory holds exactly one subdirectory
\* per input video identifier, each with video.npy, and with audio.npy
\* exactly when the video had an audio track.
C2_OutputLayout ==
    (pc = "done" /\ \A v \in DOMAIN videos : videos[v].frames >= 1) =>
        /\ DOMAIN outDirs = {DirOf(v) : v \in DOMAIN videos}
        /\ \A v \in DOMAIN videos :
             /\ HasVideoNpy(v)
             /\ HasAudioNpy(v) <=> videos[v].audio > 0

\* C3: once main has ended, normally or by an exception, no extracted frame,
\* no segment file and no whole-track .wav is left under output_dir.
C3_NoTransientFiles ==
    Terminated =>
        /\ outWavs = EmptyMap
        /\ \A d \in DOMAIN outDirs :
             outDirs[d].jpgs = {} /\ outDirs[d].wavs = {}

\* C4: when a video of zero decoded frames makes extract_image_feats raise,
\* every other .mp4 video with frames and a directory of its own still has
\* its video.npy written once the run has ended.
C4_FailureIsolated ==
    (pc = "crashed" /\ failed # NoVideo /\ n_images = 0) =>
        \A v \in DOMAIN videos :
            (/\ v # failed
             /\ GlobMp4(v)
             /\ videos[v].frames >= 1
             /\ DirOf(v) # DirOf(failed))
            => HasVideoNpy(v)

\* C5: the buffer handed to mfcc has exactly sample_rate samples: a shorter
\* segment zero-padded at the tail, a longer one truncated at the tail, one
\* of exactly that length unchanged.
C5_SegmentSamples ==
    mfcc_in # <<>> =>
        /\ mfcc_in.kept + mfcc_in.zeros = mfcc_in.sample_rate
        /\ mfcc_in.audio_length <= mfcc_in.sample_rate
             => mfcc_in.kept = mfcc_in.audio_length
        /\ mfcc_in.audio_length > mfcc_in.sample_rate
             => mfcc_in.kept = mfcc_in.sample_rate

\* C6: audio.npy holds the coefficient matrices of the segments in the
\* segments' temporal order 00, 01, 02, ...
C6_TemporalOrder ==
    \A d \in DOMAIN outDirs :
        outDirs[d].audio # NoFile =>
            \A i \in 1..(Len(outDirs[d].audio.segments) - 1) :
                outDirs[d].audio.segments[i] < outDirs[d].audio.segments[i + 1]

\* C7: the batch handed to the encoder has n_frame_steps images along its
\* first axis, and every saved video.npy has n_frame_steps rows.
C7_BatchRows ==
    /\ batch # <<>> => Head(batch) = opt.n_frame_steps
    /\ \A d \in DOMAIN outDirs :
         outDirs[d].video # NoFile =>
             outDirs[d].video.rows = opt.n_frame_steps

\* C8: a video.npy that is written stays that of its video: it is not
\* replaced by the artifact of a video whose file name minus extension
\* differs, and it is not deleted.
C8_NoClobber ==
    [][\A d \in DOMAIN outDirs :
          outDirs[d].video # NoFile =>
              /\ d \in DOMAIN outDirs'
              /\ outDirs'[d].video # NoFile
              /\ Stem(outDirs'[d].video.source) = Stem(outDirs[d].video.source)
      ]_vars

\* C9: once the run has ended with a supported model, a .mp4 video with no
\* audio stream and at least one frame, whose own processing did not raise,
\* has video.npy in its subdirectory and no audio.npy there.
C9_SilentVideo ==
    (Terminated /\ opt.model \in Supported) =>
        \A v \in DOMAIN videos :
            (/\ videos[v].audio = 0
             /\ videos[v].frames >= 1
             /\ GlobMp4(v)
             /\ v # failed)
            => (HasVideoNpy(v) /\ ~HasAudioNpy(v))

\* C10: the height and width of the image buffer allocated in
\* extract_image_feats are the input resolution main set for the model.
C10_BufferResolution ==
    images # <<>> => (images[3] = main_H /\ images[4] = main_W)

====
